---- MODULE Spec2Model ----
(***************************************************************************)
(* A model of printdiff: the string-diff renderer (_generateStringDiff and *)
(* its helpers _lineBreak, _printLine, _printContextLines and              *)
(* _printContextColumns) and the module-level settings changed by          *)
(* printdiff.configStringDiff.                                             *)
(*                                                                         *)
(* A JavaScript string is a sequence of one-character strings.  The two    *)
(* characters that have no printable one-character name are ESC ('\x1B')   *)
(* and NL ('\n').  Row lists (`result`) are sequences of such strings.     *)
(***************************************************************************)
EXTENDS Integers, Sequences, FiniteSets, TLC

VARIABLES
    maxChunks,          \* module-level setting
    maxChunksPerLine,   \* module-level setting
    contextLines,       \* module-level setting
    contextColumns,     \* module-level setting
    maxColumns,         \* module-level setting
    pc,                 \* "idle" | "loop" | "done" | "threw": position of the one render
    lines,              \* a.split('\n') without the empty last element
    changeset,          \* charDiff(a, b): the line-level change records
    wrapWidth,          \* the wrapWidth argument
    i,                  \* loop index into changeset (0-based)
    result,             \* the chunks produced so far
    curLine,            \* the current (upcoming) line number in a (0-based)
    postContextLine,    \* first post-context line of the last change, or -1
    lbPc,               \* "off" | "call" | "scan" | "done": position of one _lineBreak call
    lbStr,              \* _lineBreak: the str argument
    lbIndent,           \* _lineBreak: the indent argument
    lbWidth,            \* _lineBreak: the wrapWidth argument as passed
    lb,                 \* _lineBreak: i, start, ct, inSeq, result, wrapWidth
    lbOut,              \* _lineBreak: the returned string
    plPc,               \* "off" | "call" | "done": position of one _printLine call
    plLine,             \* _printLine: the line argument
    plPrefix,           \* _printLine: the prefix argument
    plWidth,            \* _printLine: the wrapWidth argument
    plStyle,            \* _printLine: the style argument (<<>> for null)
    plOut,              \* _printLine: the returned string
    pdPc,               \* "off" | "call" | "done": position of one printdiff call
    operands,           \* printdiff: the operands a and b, by what is read of them
    options,            \* printdiff: the caller's options value
    pdResult,           \* printdiff: the rows returned by _generateObjectDiff
    printed,            \* printdiff: the text written to the console
    ccPc,               \* "off" | "call" | "loop" | "after" | "done": position in the
                        \* character-level part of one Changed record
    ccLine,             \* ln, the line of A the record stands for
    ccDiff,             \* change.diff
    ccJ,                \* j, the index in change.diff of the next CharChange
    ccColRes,           \* colRes
    ccCurColumn         \* curColumn

settings == <<maxChunks, maxChunksPerLine, contextLines, contextColumns, maxColumns>>
locals == <<lines, changeset, wrapWidth, i, result, curLine, postContextLine>>
lbvars == <<lbPc, lbStr, lbIndent, lbWidth, lb, lbOut>>
plvars == <<plPc, plLine, plPrefix, plWidth, plStyle, plOut>>
pdvars == <<pdPc, operands, options, pdResult, printed>>
ccvars == <<ccPc, ccLine, ccDiff, ccJ, ccColRes, ccCurColumn>>
vars == <<settings, pc, locals, lbvars, plvars, pdvars, ccvars>>

-----------------------------------------------------------------------------
(* Bounds of the model.                                                    *)

\* Longest text of A, in lines.
MaxLines == 5
\* Most records of a change stream that are not Equal records.
MaxChanges == 2
\* Longest text of A, in lines, where the column settings vary.
MaxLinesCols == 2
\* Longest str given to _lineBreak on its own.
MaxStrLen == 5
\* Longest line given to _printLine on its own.
MaxBodyLen == 8
\* Length of the line of a Changed record looked at on its own.
MaxLineLen == 8
\* Most CharChanges of its diff that are not Equal.
MaxCharChanges == 2

-----------------------------------------------------------------------------
(* Characters and strings.                                                 *)

ESC == "ESC"
NL == "NL"

red == <<ESC, "[", "3", "1", "m">>
green == <<ESC, "[", "3", "2", "m">>
cyan == <<ESC, "[", "3", "6", "m">>
clear == <<ESC, "[", "0", "m">>

\* The literal '...'.
Ellipsis == <<".", ".", ".">>

Min(a, b) == IF a <= b THEN a ELSE b
Max(a, b) == IF a >= b THEN a ELSE b

\* String.prototype.substring(from, to): both indexes are clamped to
\* [0, length] and swapped when from > to.
Substring(s, from, to) ==
    LET f == Max(0, Min(from, Len(s)))
        t == Max(0, Min(to, Len(s)))
    IN  SubSeq(s, Min(f, t) + 1, Max(f, t))

\* s.substring(from): to the end of the string.
SubstringFrom(s, from) == Substring(s, from, Len(s))

\* new Array(k + 1).join(' '): k spaces.
Spaces(k) == [j \in 1..k |-> " "]

Digit(d) == <<"0", "1", "2", "3", "4", "5", "6", "7", "8", "9">>[d + 1]

\* n + '' for a non-negative integer n: its decimal digits.
RECURSIVE ToStr(_)
ToStr(n) == IF n < 10 THEN <<Digit(n)>> ELSE ToStr(n \div 10) \o <<Digit(n % 10)>>

\* s.split('\n'): the pieces between the separators (one piece, possibly
\* empty, when there is no separator).
RECURSIVE Split(_)
Split(s) ==
    IF \E k \in 1..Len(s) : s[k] = NL
    THEN LET k == CHOOSE k \in 1..Len(s) : s[k] = NL /\ \A j \in 1..(k - 1) : s[j] # NL
         IN  <<SubSeq(s, 1, k - 1)>> \o Split(SubSeq(s, k + 1, Len(s)))
    ELSE <<s>>

-----------------------------------------------------------------------------
(* _lineBreak                                                              *)

\* The loop state before the first character is looked at.
LBInit(w) ==
    [i |-> 0, start |-> 0, ct |-> 0, inSeq |-> FALSE, result |-> <<>>, wrapWidth |-> w]

\* A variant of the loop body that counts the characters of a color
\* sequence like any other character.
LBStepCountsSeq(str, indent, st) ==
    LET c == str[st.i + 1]
        ct1 == st.ct + 1
        brk == c = NL \/ ct1 = st.wrapWidth
    IN  IF brk
        THEN [i |-> st.i + 1,
              start |-> st.i + 1,
              ct |-> 0,
              inSeq |-> FALSE,
              result |-> st.result
                           \o (IF st.start # 0 THEN <<NL>> \o Spaces(indent) ELSE <<>>)
                           \o (IF c = NL THEN Substring(str, st.start, st.i)
                                         ELSE Substring(str, st.start, st.i + 1)),
              wrapWidth |-> IF st.start # 0 THEN st.wrapWidth ELSE st.wrapWidth - indent]
        ELSE [st EXCEPT !.i = st.i + 1, !.ct = ct1]

\* A variant of the loop body that leaves out the character a row is cut
\* at, as it does the line break that ends a row.
LBStepDropsCut(str, indent, st) ==
    LET c == str[st.i + 1]
        ct1 == st.ct + 1
        brk == c = NL \/ ct1 = st.wrapWidth
    IN  IF c = ESC THEN [st EXCEPT !.i = st.i + 1, !.inSeq = TRUE]
        ELSE IF st.inSeq THEN [st EXCEPT !.i = st.i + 1, !.inSeq = (c # "m")]
        ELSE IF brk
        THEN [i |-> st.i + 1,
              start |-> st.i + 1,
              ct |-> 0,
              inSeq |-> FALSE,
              result |-> st.result
                           \o (IF st.start # 0 THEN <<NL>> \o Spaces(indent) ELSE <<>>)
                           \o Substring(str, st.start, st.i),
              wrapWidth |-> IF st.start # 0 THEN st.wrapWidth ELSE st.wrapWidth - indent]
        ELSE [st EXCEPT !.i = st.i + 1, !.ct = ct1]

\* A variant of the loop body that leaves wrapWidth as it is after the
\* first line.
LBStepKeepsWidth(str, indent, st) ==
    LET c == str[st.i + 1]
        ct1 == st.ct + 1
        brk == c = NL \/ ct1 = st.wrapWidth
    IN  IF c = ESC THEN [st EXCEPT !.i = st.i + 1, !.inSeq = TRUE]
        ELSE IF st.inSeq THEN [st EXCEPT !.i = st.i + 1, !.inSeq = (c # "m")]
        ELSE IF brk
        THEN [i |-> st.i + 1,
              start |-> st.i + 1,
              ct |-> 0,
              inSeq |-> FALSE,
              result |-> st.result
                           \o (IF st.start # 0 THEN <<NL>> \o Spaces(indent) ELSE <<>>)
                           \o (IF c = NL THEN Substring(str, st.start, st.i)
                                         ELSE Substring(str, st.start, st.i + 1)),
              wrapWidth |-> st.wrapWidth]
        ELSE [st EXCEPT !.i = st.i + 1, !.ct = ct1]

\* One iteration of the for loop, on character str[st.i].
LBStep(str, indent, st) ==
    LET c == str[st.i + 1]
        ct1 == st.ct + 1
        brk == c = NL \/ ct1 = st.wrapWidth
    IN  IF c = ESC THEN [st EXCEPT !.i = st.i + 1, !.inSeq = TRUE]
        ELSE IF st.inSeq THEN [st EXCEPT !.i = st.i + 1, !.inSeq = (c # "m")]
        ELSE IF brk
        THEN [i |-> st.i + 1,
              start |-> st.i + 1,
              ct |-> 0,
              inSeq |-> FALSE,
              result |-> st.result
                           \o (IF st.start # 0 THEN <<NL>> \o Spaces(indent) ELSE <<>>)
                           \o (IF c = NL THEN Substring(str, st.start, st.i)
                                         ELSE Substring(str, st.start, st.i + 1)),
              wrapWidth |-> IF st.start # 0 THEN st.wrapWidth ELSE st.wrapWidth - indent]
        ELSE [st EXCEPT !.i = st.i + 1, !.ct = ct1]

\* The whole for loop, from loop state st.
RECURSIVE LBLoop(_, _, _)
LBLoop(str, indent, st) ==
    IF st.i < Len(str) THEN LBLoop(str, indent, LBStep(str, indent, st)) ELSE st

\* The code after the loop: the last line is added if it is not empty.
LBFinish(str, indent, st) ==
    IF st.start # Len(str)
    THEN st.result
           \o (IF st.start # 0 THEN <<NL>> \o Spaces(indent) ELSE <<>>)
           \o SubstringFrom(str, st.start)
    ELSE st.result

LineBreak(str, indent, w) ==
    IF Len(str) <= w THEN str
    ELSE LBFinish(str, indent, LBLoop(str, indent, LBInit(w)))

-----------------------------------------------------------------------------
(* _printLine                                                              *)

\* The prefix padded to four characters, or followed by one space.
PadPrefix(prefix) ==
    IF Len(prefix) >= 3 THEN prefix \o <<" ">>
    ELSE prefix \o Spaces(5 - Len(prefix) - 1)

\* A variant that cuts the line at the width left, without room for '...'.
PrintLineNoRoom(line, prefix, w, style) ==
    LET p == PadPrefix(prefix)
        w1 == w - Len(p)
        body == IF Len(line) > w1 THEN Substring(line, 0, w1) \o Ellipsis ELSE line
    IN  IF style # <<>> THEN style \o p \o body \o clear ELSE p \o body

\* style is <<>> for null.
PrintLine(line, prefix, w, style) ==
    LET p == PadPrefix(prefix)
        w1 == w - Len(p)
        body == IF Len(line) > w1 THEN Substring(line, 0, w1 - 3) \o Ellipsis ELSE line
    IN  IF style # <<>> THEN style \o p \o body \o clear ELSE p \o body

-----------------------------------------------------------------------------
(* _printContextLines                                                      *)

\* The unstyled rows of lines from .. to-1 (0-based) of lns.
ContextRows(lns, from, to, w) ==
    [k \in 1..(to - from) |-> PrintLine(lns[from + k], ToStr(from + k), w, <<>>)]

\* endLine after the post-context part.
PostContextEnd(cur, pcl) ==
    IF pcl >= 0 THEN Min(pcl + contextLines, cur) ELSE 0

\* A variant that starts the pre-context window at curLine - contextLines
\* whatever has been printed already.
PreContextStartNoClip(cur, pcl) ==
    Max(cur - contextLines, 0)

\* startLine of the pre-context part: Math.max(curLine - contextLines, endLine, 0).
PreContextStart(cur, pcl) ==
    Max(Max(cur - contextLines, PostContextEnd(cur, pcl)), 0)

\* A variant that also pushes '...' when the pre-context window starts
\* right where the post-context window ended.
GapBeforeWhenTouching(cur, pcl) ==
    \/ pcl < 0 /\ PreContextStart(cur, pcl) > 0
    \/ pcl >= 0 /\ PreContextStart(cur, pcl) >= PostContextEnd(cur, pcl)

\* Whether '...' is pushed between the two parts.
GapBefore(cur, pcl) ==
    \/ pcl < 0 /\ PreContextStart(cur, pcl) > 0
    \/ PreContextStart(cur, pcl) > PostContextEnd(cur, pcl)

\* A variant that pushes the pre-context rows of this change before the
\* post-context rows of the previous one.
PrintContextLinesPreFirst(lns, cur, pcl, w) ==
    ContextRows(lns, PreContextStart(cur, pcl), cur, w)
    \o (IF GapBefore(cur, pcl) THEN <<Ellipsis>> ELSE <<>>)
    \o (IF pcl >= 0 THEN ContextRows(lns, pcl, PostContextEnd(cur, pcl), w) ELSE <<>>)

\* The rows _printContextLines pushes onto result.
PrintContextLines(lns, cur, pcl, w) ==
    (IF pcl >= 0 THEN ContextRows(lns, pcl, PostContextEnd(cur, pcl), w) ELSE <<>>)
    \o (IF GapBefore(cur, pcl) THEN <<Ellipsis>> ELSE <<>>)
    \o ContextRows(lns, PreContextStart(cur, pcl), cur, w)

-----------------------------------------------------------------------------
(* _printContextColumns                                                    *)

\* A variant that opens a new entry for a span exactly twice contextColumns
\* past the last entry.
PrintContextColumnsAtTwice(colRes, line, curColumn) ==
    IF Len(colRes) > 0
    THEN LET n == Len(colRes)
             lastEntry == colRes[n]
         IN  IF curColumn - lastEntry.endColumn >= contextColumns * 2
             THEN [colRes EXCEPT
                     ![n] = [value |-> lastEntry.value
                                         \o Substring(line, lastEntry.endColumn,
                                                      lastEntry.endColumn + contextColumns)
                                         \o Ellipsis,
                             startColumn |-> lastEntry.startColumn,
                             endColumn |-> lastEntry.endColumn + contextColumns]]
                  \o <<[value |-> Ellipsis
                                    \o Substring(line, curColumn - contextColumns, curColumn),
                        startColumn |-> curColumn - contextColumns,
                        endColumn |-> curColumn]>>
             ELSE [colRes EXCEPT
                     ![n] = [value |-> lastEntry.value
                                         \o Substring(line, lastEntry.endColumn, curColumn),
                             startColumn |-> lastEntry.startColumn,
                             endColumn |-> curColumn]]
    ELSE LET start == Max(curColumn - contextColumns, 0)
         IN  <<[value |-> (IF start > 0 THEN Ellipsis ELSE <<>>)
                            \o Substring(line, start, curColumn),
                startColumn |-> start,
                endColumn |-> curColumn]>>

\* A variant that opens a new entry for a span more than contextColumns
\* past the last entry.
PrintContextColumnsOneWindow(colRes, line, curColumn) ==
    IF Len(colRes) > 0
    THEN LET n == Len(colRes)
             lastEntry == colRes[n]
         IN  IF curColumn - lastEntry.endColumn > contextColumns
             THEN [colRes EXCEPT
                     ![n] = [value |-> lastEntry.value
                                         \o Substring(line, lastEntry.endColumn,
                                                      lastEntry.endColumn + contextColumns)
                                         \o Ellipsis,
                             startColumn |-> lastEntry.startColumn,
                             endColumn |-> lastEntry.endColumn + contextColumns]]
                  \o <<[value |-> Ellipsis
                                    \o Substring(line, curColumn - contextColumns, curColumn),
                        startColumn |-> curColumn - contextColumns,
                        endColumn |-> curColumn]>>
             ELSE [colRes EXCEPT
                     ![n] = [value |-> lastEntry.value
                                         \o Substring(line, lastEntry.endColumn, curColumn),
                             startColumn |-> lastEntry.startColumn,
                             endColumn |-> curColumn]]
    ELSE LET start == Max(curColumn - contextColumns, 0)
         IN  <<[value |-> (IF start > 0 THEN Ellipsis ELSE <<>>)
                            \o Substring(line, start, curColumn),
                startColumn |-> start,
                endColumn |-> curColumn]>>

\* colRes is a sequence of entries [value, startColumn, endColumn]; the
\* result is colRes after the call.
PrintContextColumns(colRes, line, curColumn) ==
    IF Len(colRes) > 0
    THEN LET n == Len(colRes)
             lastEntry == colRes[n]
         IN  IF curColumn - lastEntry.endColumn > contextColumns * 2
             THEN [colRes EXCEPT
                     ![n] = [value |-> lastEntry.value
                                         \o Substring(line, lastEntry.endColumn,
                                                      lastEntry.endColumn + contextColumns)
                                         \o Ellipsis,
                             startColumn |-> lastEntry.startColumn,
                             endColumn |-> lastEntry.endColumn + contextColumns]]
                  \o <<[value |-> Ellipsis
                                    \o Substring(line, curColumn - contextColumns, curColumn),
                        startColumn |-> curColumn - contextColumns,
                        endColumn |-> curColumn]>>
             ELSE [colRes EXCEPT
                     ![n] = [value |-> lastEntry.value
                                         \o Substring(line, lastEntry.endColumn, curColumn),
                             startColumn |-> lastEntry.startColumn,
                             endColumn |-> curColumn]]
    ELSE LET start == Max(curColumn - contextColumns, 0)
         IN  <<[value |-> (IF start > 0 THEN Ellipsis ELSE <<>>)
                            \o Substring(line, start, curColumn),
                startColumn |-> start,
                endColumn |-> curColumn]>>

-----------------------------------------------------------------------------
(* _generateStringDiff: the character-level part of a Changed record       *)

\* A variant that cuts a long span without marking the cut.
SpanTextNoMarker(text, style) ==
    style
    \o (IF Len(text) <= maxColumns THEN text
        ELSE Substring(text, 0, maxColumns))
    \o clear

\* A removed or added span, cut to maxColumns characters.
SpanText(text, style) ==
    style
    \o (IF Len(text) <= maxColumns THEN text
        ELSE Substring(text, 0, maxColumns) \o Ellipsis)
    \o clear

\* The last entry of colRes with text appended and endColumn advanced.
GrowLast(colRes, text, by) ==
    [colRes EXCEPT ![Len(colRes)] =
        [value |-> @.value \o text,
         startColumn |-> @.startColumn,
         endColumn |-> @.endColumn + by]]

\* One iteration of the loop over change.diff, without the test that ends
\* it: st is [colRes, curColumn].
CharStep(st, ln, chg) ==
    LET cr == PrintContextColumns(st.colRes, ln, st.curColumn)
    IN  CASE chg.type = "=" ->
               [colRes |-> st.colRes, curColumn |-> st.curColumn + Len(chg.value)]
          [] chg.type = "-" ->
               [colRes |-> GrowLast(cr, SpanText(chg.left, red), Len(chg.left)),
                curColumn |-> st.curColumn + Len(chg.left)]
          [] chg.type = "+" ->
               [colRes |-> GrowLast(cr, SpanText(chg.right, green), 0),
                curColumn |-> st.curColumn]
          [] OTHER ->
               [colRes |-> GrowLast(cr, SpanText(chg.left, red) \o SpanText(chg.right, green),
                                    Len(chg.left)),
                curColumn |-> st.curColumn + Len(chg.left)]

\* The loop over change.diff from index j (0-based); it ends early once
\* colRes holds more than maxChunksPerLine entries.
RECURSIVE CharLoop(_, _, _, _)
CharLoop(diff, j, st, ln) ==
    IF j >= Len(diff) THEN st
    ELSE LET st1 == CharStep(st, ln, diff[j + 1])
         IN  IF Len(st1.colRes) > maxChunksPerLine THEN st1
             ELSE CharLoop(diff, j + 1, st1, ln)

\* colRes of a Changed record, with the post-context columns of the last
\* change; `last` is the index of the entry the code calls lastEntry.
ColumnEntries(diff, ln) ==
    LET cr == CharLoop(diff, 0, [colRes |-> <<>>, curColumn |-> 0], ln).colRes
        last == Len(cr)
        cr1 == PrintContextColumns(cr, ln, Min(cr[last].endColumn + contextColumns, Len(ln)))
    IN  [colRes |-> IF cr1[last].endColumn < Len(ln)
                    THEN [cr1 EXCEPT ![last].value = @ \o Ellipsis]
                    ELSE cr1,
         last |-> last]

\* curLine + 1 + '' or curLine + 1 + ',' + (startColumn + 1)
EntryPrefix(cur, entry) ==
    IF entry.startColumn = 0 THEN ToStr(cur + 1)
    ELSE ToStr(cur + 1) \o <<",">> \o ToStr(entry.startColumn + 1)

MaxPrefixLen(cur, lastEntry) ==
    Max(Len(EntryPrefix(cur, lastEntry)) + 1, 4)

\* The styled and padded prefix of an entry's rows.
StyledPrefix(cur, entry, maxPrefixLen) ==
    cyan \o EntryPrefix(cur, entry) \o clear
    \o Spaces(maxPrefixLen - Len(EntryPrefix(cur, entry)))

\* The physical rows of one entry.
EntryRows(cur, entry, maxPrefixLen, w) ==
    Split(LineBreak(StyledPrefix(cur, entry, maxPrefixLen) \o entry.value, maxPrefixLen, w))

\* A variant of the ceiling test that never stops the loop.
OverCeilingNever(j, lineChunks, res, rows) ==
    FALSE

\* A variant of the ceiling test that leaves out the per-line ceiling.
OverCeilingGlobalOnly(j, lineChunks, res, rows) ==
    j > 0 /\ Len(res) + Len(rows) > maxChunks

\* The test made before the rows of entry j (0-based) are appended.
OverCeiling(j, lineChunks, res, rows) ==
    j > 0 /\ (lineChunks > maxChunksPerLine \/ Len(res) + Len(rows) > maxChunks)

\* The loop that merges colRes into result, from entry j (0-based).
RECURSIVE MergeLoop(_, _, _, _, _, _, _)
MergeLoop(colRes, j, res, lineChunks, cur, maxPrefixLen, w) ==
    IF j >= Len(colRes) THEN res
    ELSE LET entry == colRes[j + 1]
             rows == EntryRows(cur, entry, maxPrefixLen, w)
             lc == lineChunks + Len(rows)
         IN  IF OverCeiling(j, lc, res, rows)
             THEN Append(res, StyledPrefix(cur, entry, maxPrefixLen) \o Ellipsis)
             ELSE MergeLoop(colRes, j + 1, res \o rows, lc, cur, maxPrefixLen, w)

\* result after the rows of a Changed record are merged into res.
ChangedRows(res, change, lns, cur, w) ==
    LET ce == ColumnEntries(change.diff, lns[cur + 1])
    IN  MergeLoop(ce.colRes, 0, res, 0, cur, MaxPrefixLen(cur, ce.colRes[ce.last]), w)

-----------------------------------------------------------------------------
(* Inputs: texts of A, change streams as charDiff reports them, widths,    *)
(* and arguments of configStringDiff.                                      *)

Letters == <<"a", "b", "c", "d", "e", "f", "g", "h", "i", "j", "k", "l">>

\* Line k (1-based) of the text of the tests, 'a\nb\nc\n...'.
ShortLine(k) == <<Letters[((k - 1) % Len(Letters)) + 1]>>

\* A line of ten characters.
LongLine == SubSeq(Letters, 1, 10)

\* The texts of A of n lines: one letter a line, or ten characters a line.
TextsOf(n) == {[k \in 1..n |-> ShortLine(k)], [k \in 1..n |-> LongLine]}

\* Character-level change records.
CEq(v) == [type |-> "=", value |-> v, left |-> <<>>, right |-> <<>>]
CDel(l) == [type |-> "-", value |-> <<>>, left |-> l, right |-> <<>>]
CIns(r) == [type |-> "+", value |-> <<>>, left |-> <<>>, right |-> r]
CRep(l, r) == [type |-> "*", value |-> <<>>, left |-> l, right |-> r]

\* Line-level change records.
Equal == [type |-> "=", right |-> <<>>, diff |-> <<>>]
Removed == [type |-> "-", right |-> <<>>, diff |-> <<>>]
Added(r) == [type |-> "+", right |-> r, diff |-> <<>>]
Changed(d) == [type |-> "*", right |-> <<>>, diff |-> d]

\* The text of an added line, with its line break.
AddedTexts == {<<"d", "x", NL>>}

\* Character-level diffs of a line: text appended to a short line; for a
\* longer line, either its first character replaced and its last but one
\* removed, or three changes four columns apart.  Each holds a change: the
\* code reads colRes[colRes.length-1] after the loop over change.diff.
DiffsOf(line) ==
    IF Len(line) < 10
    THEN {<<CEq(line), CIns(<<"x">>)>>}
    ELSE {<<CRep(SubSeq(line, 1, 1), <<"x", "y", "z">>),
            CEq(SubSeq(line, 2, Len(line) - 2)),
            CDel(SubSeq(line, Len(line) - 1, Len(line) - 1)),
            CEq(SubSeq(line, Len(line), Len(line)))>>,
          <<CDel(SubSeq(line, 1, 1)),
            CEq(SubSeq(line, 2, 4)),
            CRep(SubSeq(line, 5, 5), <<"p", "q", "r">>),
            CEq(SubSeq(line, 6, 8)),
            CIns(<<"s">>),
            CEq(SubSeq(line, 9, Len(line)))>>}

\* The change streams that cover lines k+1 .. Len(lns) of lns with at most
\* `budget` records that are not Equal.  Each Equal, Removed and Changed
\* record stands for one line of A; Added records stand between lines.
RECURSIVE StreamsFrom(_, _, _)
StreamsFrom(lns, k, budget) ==
    LET adds == IF budget > 0
                THEN {<<Added(r)>> \o s : r \in AddedTexts, s \in StreamsFrom(lns, k, budget - 1)}
                ELSE {}
    IN  IF k >= Len(lns) THEN {<<>>} \cup adds
        ELSE adds
             \cup {<<Equal>> \o s : s \in StreamsFrom(lns, k + 1, budget)}
             \cup (IF budget > 0
                   THEN {<<Removed>> \o s : s \in StreamsFrom(lns, k + 1, budget - 1)}
                        \cup {<<Changed(d)>> \o s :
                                d \in DiffsOf(lns[k + 1]), s \in StreamsFrom(lns, k + 1, budget - 1)}
                   ELSE {})

\* The streams charDiff may report for a text: those that cover it, one
\* record a line of A.
StreamsOf(lns) == StreamsFrom(lns, 0, MaxChanges)

\* Wrapping widths: a narrow and a usual terminal.
WrapWidths == {8, 80}

\* An argument of configStringDiff: undefined, a number or a string.
Undefined == [t |-> "undefined", n |-> 0, s |-> <<>>]
Num(k) == [t |-> "number", n |-> k, s |-> <<>>]
Str(chars) == [t |-> "string", n |-> 0, s |-> chars]

\* NaN, the result of parseInt when no digit is found.  The settings of the
\* model are integers; NaN is kept apart from every integer a parse gives
\* (these are not negative: the arguments of the model carry no sign).
NaN == -1

IsDecimalDigit(c) == \E d \in 0..9 : Digit(d) = c

\* The longest prefix of s made of decimal digits.
RECURSIVE DigitsPrefix(_)
DigitsPrefix(s) ==
    IF Len(s) > 0 /\ IsDecimalDigit(s[1]) THEN <<s[1]>> \o DigitsPrefix(Tail(s)) ELSE <<>>

\* The value of a non-empty sequence of decimal digits.
RECURSIVE DecimalValue(_)
DecimalValue(ds) ==
    IF Len(ds) = 0 THEN 0
    ELSE 10 * DecimalValue(SubSeq(ds, 1, Len(ds) - 1))
         + (CHOOSE d \in 0..9 : Digit(d) = ds[Len(ds)])

\* parseInt(v, 10): a non-negative integer is its own value; a string is
\* read up to its first character that is not a digit, and gives NaN when
\* it starts with none.
ParseInt(v) ==
    IF v.t = "number" THEN v.n
    ELSE IF DigitsPrefix(v.s) = <<>> THEN NaN
    ELSE DecimalValue(DigitsPrefix(v.s))

\* The argument lists of configStringDiff: a small row ceiling and a small
\* context window.
ConfigArgs ==
    {<<mc, Undefined, Undefined, cl, Undefined>> :
        mc \in {Undefined, Num(1), Num(2)}, cl \in {Undefined, Num(1)}}

-----------------------------------------------------------------------------
(* The values printdiff is called with.                                    *)

\* A node of the tree objectDiff.diff returns: `changed` is its mark; an
\* 'object change' node has keys (in the order of Object.keys) and one kid
\* a key; the other nodes carry the util.inspect text of their values.
Node(changed, keys, kids, removed, added, value) ==
    [changed |-> changed, keys |-> keys, kids |-> kids,
     removed |-> removed, added |-> added, value |-> value]

EqualLeaf == Node("equal", <<>>, <<>>, <<>>, <<>>, <<"1">>)

\* The operands: two objects (their diff tree is what is read of them),
\* two strings (their lines and change stream), or two other values
\* (their util.inspect texts).
NoOperands ==
    [kind |-> "none", diff |-> EqualLeaf, a |-> <<>>, b |-> <<>>, lns |-> <<>>, cs |-> <<>>]

\* The options value: not an object, or an object whose fields colors
\* ("undefined", "true", "false"), output ("undefined", "null", "stream")
\* and wrapWidth (undefined or a number) are as the caller set them.
NoOptions ==
    [isObject |-> FALSE, colors |-> "undefined", output |-> "undefined",
     wrapWidth |-> Undefined]

\* No printdiff call is being looked at.
PDOff ==
    /\ pdPc = "off"
    /\ operands = NoOperands
    /\ options = NoOptions
    /\ pdResult = <<>>
    /\ printed = <<>>

\* No Changed record is being looked at on its own.
CCOff ==
    /\ ccPc = "off"
    /\ ccLine = <<>>
    /\ ccDiff = <<>>
    /\ ccJ = 0
    /\ ccColRes = <<>>
    /\ ccCurColumn = 0

-----------------------------------------------------------------------------
(* The program.                                                            *)

Init ==
    /\ maxChunks = 200
    /\ maxChunksPerLine = 20
    /\ contextLines = 3
    /\ contextColumns = 25
    /\ maxColumns = 50
    /\ pc = "idle"
    /\ lines = <<>>
    /\ changeset = <<>>
    /\ wrapWidth = 0
    /\ i = 0
    /\ result = <<>>
    /\ curLine = 0
    /\ postContextLine = -1
    /\ lbPc = "off"
    /\ lbStr = <<>>
    /\ lbIndent = 0
    /\ lbWidth = 0
    /\ lb = LBInit(0)
    /\ lbOut = <<>>
    /\ plPc = "off"
    /\ plLine = <<>>
    /\ plPrefix = <<>>
    /\ plWidth = 0
    /\ plStyle = <<>>
    /\ plOut = <<>>
    /\ PDOff
    /\ CCOff

\* A setting after configStringDiff: unchanged when the argument is
\* undefined.
Configured(old, arg) == IF arg.t = "undefined" THEN old ELSE ParseInt(arg)

\* printdiff.configStringDiff(_maxChunks, _maxChunksPerLine, _maxColumns,
\* _contextLines, _contextColumns), between two renders.
ConfigStringDiff(Args) ==
    /\ pc = "idle"
    /\ \E a \in Args :
         /\ maxChunks' = Configured(maxChunks, a[1])
         /\ maxChunksPerLine' = Configured(maxChunksPerLine, a[2])
         /\ maxColumns' = Configured(maxColumns, a[3])
         /\ contextLines' = Configured(contextLines, a[4])
         /\ contextColumns' = Configured(contextColumns, a[5])
    /\ UNCHANGED <<pc, locals, lbvars, plvars, pdvars, ccvars>>

\* _generateStringDiff is entered: the locals are set up.
Call(Sizes) ==
    /\ pc = "idle"
    /\ \E n \in Sizes : \E lns \in TextsOf(n) : \E cs \in StreamsOf(lns) : \E w \in WrapWidths :
         /\ lines' = lns
         /\ changeset' = cs
         /\ wrapWidth' = w
    /\ i' = 0
    /\ result' = <<>>
    /\ curLine' = 0
    /\ postContextLine' = -1
    /\ pc' = "loop"
    /\ UNCHANGED <<settings, lbvars, plvars, pdvars, ccvars>>

\* The record the loop is at.
change == changeset[i + 1]

\* result after the call of _printContextLines that opens every branch
\* but the first.
WithContext == result \o PrintContextLines(lines, curLine, postContextLine, wrapWidth)

\* A variant of the global ceiling test that is off by one.
CeilingReachedLate(res) == Len(res) > maxChunks

\* result.length >= maxChunks
CeilingReached(res) == Len(res) >= maxChunks

\* The code after the loop when it was left by break.
AfterBreak(res) ==
    IF i < Len(changeset) - 1 THEN Append(res, Ellipsis) ELSE res

\* The loop is left by break: `marker` is the row pushed before it.
Break(marker) ==
    /\ result' = AfterBreak(Append(WithContext, marker))
    /\ pc' = "done"
    /\ UNCHANGED <<settings, lines, changeset, wrapWidth, i, curLine, postContextLine, lbvars, plvars, pdvars, ccvars>>

StepEqual ==
    /\ pc = "loop" /\ i < Len(changeset)
    /\ change.type = "="
    /\ curLine' = curLine + 1
    /\ i' = i + 1
    /\ UNCHANGED <<settings, pc, lines, changeset, wrapWidth, result, postContextLine, lbvars, plvars, pdvars, ccvars>>

\* A variant that counts the rows down in the module-level ceiling
\* instead of comparing result.length with it.
StepRemovedSpendsCeiling ==
    /\ pc = "loop" /\ i < Len(changeset)
    /\ change.type = "-"
    /\ IF CeilingReached(WithContext)
       THEN Break(PrintLine(Ellipsis, ToStr(curLine + 1), wrapWidth, red))
       ELSE /\ result' = Append(WithContext,
                                PrintLine(lines[curLine + 1], ToStr(curLine + 1), wrapWidth, red))
            /\ postContextLine' = curLine + 1
            /\ curLine' = curLine + 1
            /\ i' = i + 1
            /\ maxChunks' = maxChunks - 1
            /\ UNCHANGED <<maxChunksPerLine, contextLines, contextColumns, maxColumns,
                           pc, lines, changeset, wrapWidth, lbvars, plvars, pdvars, ccvars>>

StepRemoved ==
    /\ pc = "loop" /\ i < Len(changeset)
    /\ change.type = "-"
    /\ IF CeilingReached(WithContext)
       THEN Break(PrintLine(Ellipsis, ToStr(curLine + 1), wrapWidth, red))
       ELSE /\ result' = Append(WithContext,
                                PrintLine(lines[curLine + 1], ToStr(curLine + 1), wrapWidth, red))
            /\ postContextLine' = curLine + 1
            /\ curLine' = curLine + 1
            /\ i' = i + 1
            /\ UNCHANGED <<settings, pc, lines, changeset, wrapWidth, lbvars, plvars, pdvars, ccvars>>

\* change.right without its trailing line break.
StripBreak(ln) ==
    IF Len(ln) > 0 /\ ln[Len(ln)] = NL THEN Substring(ln, 0, Len(ln) - 1) ELSE ln

StepAdded ==
    /\ pc = "loop" /\ i < Len(changeset)
    /\ change.type = "+"
    /\ IF CeilingReached(WithContext)
       THEN Break(PrintLine(Ellipsis, <<>>, wrapWidth, green))
       ELSE /\ result' = Append(WithContext,
                                PrintLine(StripBreak(change.right), <<>>, wrapWidth, green))
            /\ postContextLine' = curLine
            /\ i' = i + 1
            /\ UNCHANGED <<settings, pc, lines, changeset, wrapWidth, curLine, lbvars, plvars, pdvars, ccvars>>

\* colRes is empty after the loop over change.diff: the diff holds no
\* change, so that colRes[colRes.length-1] is undefined.
NoEntry(diff, ln) ==
    CharLoop(diff, 0, [colRes |-> <<>>, curColumn |-> 0], ln).colRes = <<>>

StepChanged ==
    /\ pc = "loop" /\ i < Len(changeset)
    /\ change.type = "*"
    /\ IF CeilingReached(WithContext)
       THEN Break(PrintLine(Ellipsis, ToStr(curLine + 1), wrapWidth, cyan))
       ELSE IF NoEntry(change.diff, lines[curLine + 1])
       THEN \* lastEntry.endColumn throws a TypeError
            /\ result' = WithContext
            /\ pc' = "threw"
            /\ UNCHANGED <<settings, lines, changeset, wrapWidth, i, curLine,
                           postContextLine, lbvars, plvars, pdvars, ccvars>>
       ELSE /\ result' = ChangedRows(WithContext, change, lines, curLine, wrapWidth)
            /\ postContextLine' = curLine + 1
            /\ curLine' = curLine + 1
            /\ i' = i + 1
            /\ UNCHANGED <<settings, pc, lines, changeset, wrapWidth, lbvars, plvars, pdvars, ccvars>>

\* A variant that pushes the last '...' also when the post-context lines
\* end with the last line of the text.
FinishGapAtEnd ==
    /\ pc = "loop" /\ i = Len(changeset)
    /\ result' = result
                   \o PrintContextLines(lines,
                                        Min(postContextLine + contextLines, Len(lines)),
                                        postContextLine, wrapWidth)
                   \o (IF postContextLine + contextLines <= Len(lines)
                       THEN <<Ellipsis>> ELSE <<>>)
    /\ pc' = "done"
    /\ UNCHANGED <<settings, lines, changeset, wrapWidth, i, curLine, postContextLine, lbvars,
                   plvars, pdvars, ccvars>>

\* The loop ended normally: the post-context lines of the last change and
\* a last '...' when the end of the text is not reached.
Finish ==
    /\ pc = "loop" /\ i = Len(changeset)
    /\ result' = result
                   \o PrintContextLines(lines,
                                        Min(postContextLine + contextLines, Len(lines)),
                                        postContextLine, wrapWidth)
                   \o (IF postContextLine + contextLines < Len(lines)
                       THEN <<Ellipsis>> ELSE <<>>)
    /\ pc' = "done"
    /\ UNCHANGED <<settings, lines, changeset, wrapWidth, i, curLine, postContextLine, lbvars, plvars, pdvars, ccvars>>

\* _generateStringDiff returns; its locals are gone.
Return ==
    /\ pc = "done"
    /\ pc' = "idle"
    /\ lines' = <<>>
    /\ changeset' = <<>>
    /\ wrapWidth' = 0
    /\ i' = 0
    /\ result' = <<>>
    /\ curLine' = 0
    /\ postContextLine' = -1
    /\ UNCHANGED <<settings, lbvars, plvars, pdvars, ccvars>>

\* The TypeError leaves _generateStringDiff and printdiff; the locals are
\* gone.
Unwind ==
    /\ pc = "threw"
    /\ pc' = "idle"
    /\ lines' = <<>>
    /\ changeset' = <<>>
    /\ wrapWidth' = 0
    /\ i' = 0
    /\ result' = <<>>
    /\ curLine' = 0
    /\ postContextLine' = -1
    /\ UNCHANGED <<settings, lbvars, plvars, pdvars, ccvars>>

Next ==
    \/ ConfigStringDiff(ConfigArgs)
    \/ Call(0..MaxLines)
    \/ StepEqual
    \/ StepRemoved
    \/ StepAdded
    \/ StepChanged
    \/ Finish
    \/ Return

Spec == Init /\ [][Next]_vars

-----------------------------------------------------------------------------
(* The same program with the settings of the character-level part varied,  *)
(* on short texts.                                                         *)

ConfigArgsCols ==
    {<<mc, mcpl, mcol, Undefined, cc>> :
        mc \in {Undefined, Num(2), Num(4)}, mcpl \in {Undefined, Num(1), Num(3)},
        mcol \in {Undefined, Num(2)}, cc \in {Undefined, Num(1)}}

NextCols ==
    \/ ConfigStringDiff(ConfigArgsCols)
    \/ Call(0..MaxLinesCols)
    \/ StepEqual
    \/ StepRemoved
    \/ StepAdded
    \/ StepChanged
    \/ Finish
    \/ Return

SpecCols == Init /\ [][NextCols]_vars

-----------------------------------------------------------------------------
(* _lineBreak on its own, one loop iteration a step.                       *)

LBChars == {ESC, "m", "a", NL}
LBStrings == UNION {[1..k -> LBChars] : k \in 0..MaxStrLen}
LBIndents == {0, 2}
LBWidths == {2, 3, 4}

InitLB ==
    /\ maxChunks = 200
    /\ maxChunksPerLine = 20
    /\ contextLines = 3
    /\ contextColumns = 25
    /\ maxColumns = 50
    /\ pc = "idle"
    /\ lines = <<>>
    /\ changeset = <<>>
    /\ wrapWidth = 0
    /\ i = 0
    /\ result = <<>>
    /\ curLine = 0
    /\ postContextLine = -1
    /\ lbPc = "call"
    /\ lbStr \in LBStrings
    /\ lbIndent \in LBIndents
    /\ lbWidth \in LBWidths
    /\ lb = LBInit(lbWidth)
    /\ lbOut = <<>>
    /\ plPc = "off"
    /\ plLine = <<>>
    /\ plPrefix = <<>>
    /\ plWidth = 0
    /\ plStyle = <<>>
    /\ plOut = <<>>
    /\ PDOff
    /\ CCOff

\* The one-liner shortcut.
LBFastPath ==
    /\ lbPc = "call"
    /\ Len(lbStr) <= lbWidth
    /\ lbOut' = lbStr
    /\ lbPc' = "done"
    /\ UNCHANGED <<settings, pc, locals, lbStr, lbIndent, lbWidth, lb, plvars, pdvars, ccvars>>

LBEnter ==
    /\ lbPc = "call"
    /\ ~(Len(lbStr) <= lbWidth)
    /\ lbPc' = "scan"
    /\ UNCHANGED <<settings, pc, locals, lbStr, lbIndent, lbWidth, lb, lbOut, plvars, pdvars, ccvars>>

LBScan ==
    /\ lbPc = "scan"
    /\ lb.i < Len(lbStr)
    /\ lb' = LBStep(lbStr, lbIndent, lb)
    /\ UNCHANGED <<settings, pc, locals, lbPc, lbStr, lbIndent, lbWidth, lbOut, plvars, pdvars, ccvars>>

LBReturn ==
    /\ lbPc = "scan"
    /\ ~(lb.i < Len(lbStr))
    /\ lbOut' = LBFinish(lbStr, lbIndent, lb)
    /\ lbPc' = "done"
    /\ UNCHANGED <<settings, pc, locals, lbStr, lbIndent, lbWidth, lb, plvars, pdvars, ccvars>>

NextLB == LBFastPath \/ LBEnter \/ LBScan \/ LBReturn

SpecLB == InitLB /\ [][NextLB]_vars

-----------------------------------------------------------------------------
(* _printLine on its own.                                                  *)

\* Lines of 0 .. MaxBodyLen letters.
PLLines == {[k \in 1..n |-> Letters[((k - 1) % Len(Letters)) + 1]] : n \in 0..MaxBodyLen}

\* Prefixes: none (an added line), line numbers of one to four digits.
PLPrefixes == {<<>>, <<"7">>, <<"4", "2">>, <<"1", "0", "0">>, <<"1", "0", "0", "0">>}

PLWidths == 4..12

PLStyles == {<<>>, red}

InitPL ==
    /\ maxChunks = 200
    /\ maxChunksPerLine = 20
    /\ contextLines = 3
    /\ contextColumns = 25
    /\ maxColumns = 50
    /\ pc = "idle"
    /\ lines = <<>>
    /\ changeset = <<>>
    /\ wrapWidth = 0
    /\ i = 0
    /\ result = <<>>
    /\ curLine = 0
    /\ postContextLine = -1
    /\ lbPc = "off"
    /\ lbStr = <<>>
    /\ lbIndent = 0
    /\ lbWidth = 0
    /\ lb = LBInit(0)
    /\ lbOut = <<>>
    /\ plPc = "call"
    /\ plLine \in PLLines
    /\ plPrefix \in PLPrefixes
    /\ plWidth \in PLWidths
    /\ plStyle \in PLStyles
    /\ plOut = <<>>
    /\ PDOff
    /\ CCOff

PLReturn ==
    /\ plPc = "call"
    /\ plOut' = PrintLine(plLine, plPrefix, plWidth, plStyle)
    /\ plPc' = "done"
    /\ UNCHANGED <<settings, pc, locals, lbvars, plLine, plPrefix, plWidth, plStyle, pdvars, ccvars>>

NextPL == PLReturn

SpecPL == InitPL /\ [][NextPL]_vars

-----------------------------------------------------------------------------
(* The renderer given change streams whose Changed records break the       *)
(* contract of the diff: the character-level diff of a line stops before   *)
(* the end of the line, or holds no change.                                *)

\* Character-level diffs that do not cover the line: its first character
\* removed and nothing more, an added text and nothing more, its first
\* character equal and nothing more, or no record at all.
UncoveredDiffsOf(line) ==
    {<<CDel(SubSeq(line, 1, 1))>>, <<CIns(<<"x">>)>>, <<CEq(SubSeq(line, 1, 1))>>, <<>>}

\* Streams with one record a line, a Changed record among them carrying
\* such a diff.
RECURSIVE UncoveredStreamsFrom(_, _, _)
UncoveredStreamsFrom(lns, k, budget) ==
    IF k >= Len(lns) THEN {<<>>}
    ELSE {<<Equal>> \o s : s \in UncoveredStreamsFrom(lns, k + 1, budget)}
         \cup (IF budget > 0
               THEN {<<Removed>> \o s : s \in UncoveredStreamsFrom(lns, k + 1, budget - 1)}
                    \cup {<<Changed(d)>> \o s :
                            d \in UncoveredDiffsOf(lns[k + 1]),
                            s \in UncoveredStreamsFrom(lns, k + 1, budget - 1)}
               ELSE {})

UncoveredStreamsOf(lns) ==
    {s \in UncoveredStreamsFrom(lns, 0, MaxChanges) : \E k \in 1..Len(s) : s[k].type = "*"}

\* _generateStringDiff is entered with such a stream.
CallUncovered(Sizes) ==
    /\ pc = "idle"
    /\ \E n \in Sizes : \E lns \in TextsOf(n) : \E cs \in UncoveredStreamsOf(lns) :
       \E w \in WrapWidths :
         /\ lines' = lns
         /\ changeset' = cs
         /\ wrapWidth' = w
    /\ i' = 0
    /\ result' = <<>>
    /\ curLine' = 0
    /\ postContextLine' = -1
    /\ pc' = "loop"
    /\ UNCHANGED <<settings, lbvars, plvars, pdvars, ccvars>>

NextUncovered ==
    \/ ConfigStringDiff(ConfigArgs)
    \/ CallUncovered(1..MaxLinesCols)
    \/ StepEqual
    \/ StepRemoved
    \/ StepChanged
    \/ Finish
    \/ Return
    \/ Unwind

SpecUncovered == Init /\ [][NextUncovered]_vars

-----------------------------------------------------------------------------
(* configStringDiff on its own, with arguments of every kind.              *)

\* Strings passed as a setting: one without a digit, one of digits
\* followed by text.
ArgStrings == {<<"x">>, <<"1", "2", "p", "x">>}

ArgValues == {Undefined, Num(1)} \cup {Str(t) : t \in ArgStrings}

ConfigArgsAny ==
    {<<mc, mcpl, mcol, cl, cc>> :
        mc \in ArgValues, mcpl \in ArgValues, mcol \in ArgValues,
        cl \in ArgValues, cc \in ArgValues}

NextConfig == ConfigStringDiff(ConfigArgsAny)

SpecConfig == Init /\ [][NextConfig]_vars

-----------------------------------------------------------------------------
(* Reading rows back.  The texts above hold letters only, so a digit, a    *)
(* comma, a dot or an ESC in a row was put there by the renderer.          *)

Digits == {"0", "1", "2", "3", "4", "5", "6", "7", "8", "9"}

DigitValue(c) == CHOOSE d \in 0..9 : Digit(d) = c

\* The color sequence a row starts with, or <<>>.
RowStyle(row) ==
    IF Len(row) >= 5 /\ row[1] = ESC THEN SubSeq(row, 1, 5) ELSE <<>>

\* The row without the color sequence it starts with.
RowBody(row) == SubSeq(row, Len(RowStyle(row)) + 1, Len(row))

\* The row starts, after its color, with a line number of A.
HasLineNo(row) == Len(RowBody(row)) > 0 /\ RowBody(row)[1] \in Digits

\* The value of the digits s starts with.
RECURSIVE LeadingNumber(_, _)
LeadingNumber(s, acc) ==
    IF Len(s) > 0 /\ s[1] \in Digits
    THEN LeadingNumber(Tail(s), 10 * acc + DigitValue(s[1]))
    ELSE acc

\* The 1-based line number of A a row carries.
LineNo(row) == LeadingNumber(RowBody(row), 0)

IsGapRow(row) == row = Ellipsis
IsContextRow(row) == RowStyle(row) = <<>> /\ HasLineNo(row)
IsRemovedRow(row) == RowStyle(row) = red /\ HasLineNo(row)
IsAddedRow(row) == RowStyle(row) = green /\ ~HasLineNo(row)
IsChangedRow(row) == RowStyle(row) = cyan /\ HasLineNo(row)

\* The render has returned its rows.
Rendered == pc = "done"

\* The loop was left by break.
Broke == pc = "done" /\ i < Len(changeset)

AllEqual(cs) == \A k \in 1..Len(cs) : cs[k].type = "="

-----------------------------------------------------------------------------
(* C1.  Equal inputs (an empty change stream, or Equal records only) give  *)
(* an empty chunk list, for every text of A and every contextLines.        *)

C1_EqualInputsNoRows ==
    (Rendered /\ AllEqual(changeset)) => result = <<>>

-----------------------------------------------------------------------------
(* C2.  The rows returned by one render number at most maxChunks + 1,      *)
(* context rows, gap markers and truncation markers counted.               *)

C2_RowCountAtMostCeilingPlusOne ==
    Rendered => Len(result) <= maxChunks + 1

-----------------------------------------------------------------------------
(* The Changed record the loop is at, seen from outside the merge loop.    *)

\* The loop is at a record of the given type.
AtRecord(type) == pc = "loop" /\ i < Len(changeset) /\ change.type = type

\* The Changed record the loop is at is rendered, not cut by the global ceiling.
RendersChanged == AtRecord("*") /\ Len(WithContext) < maxChunks

\* Its entries, and the physical rows of entry k (1-based).
EntriesHere == ColumnEntries(change.diff, lines[curLine + 1])
RowsOfEntry(k) ==
    EntryRows(curLine, EntriesHere.colRes[k],
              MaxPrefixLen(curLine, EntriesHere.colRes[EntriesHere.last]), wrapWidth)

\* The rows of entries 1 .. k, in order.
RECURSIVE RowsThrough(_)
RowsThrough(k) == IF k <= 0 THEN <<>> ELSE RowsThrough(k - 1) \o RowsOfEntry(k)

\* A row that holds a cyan position prefix, blanks and '...' only: the
\* marker of a line cut by a ceiling.
IsLineTruncRow(row) ==
    /\ IsChangedRow(row)
    /\ \E n \in 1..Len(row) :
         /\ \A k \in 6..n : row[k] \in Digits \cup {","}
         /\ \E m \in (n + 4)..Len(row) :
              /\ SubSeq(row, n + 1, n + 4) = clear
              /\ \A k \in (n + 5)..m : row[k] = " "
              /\ SubSeq(row, m + 1, Len(row)) = Ellipsis

-----------------------------------------------------------------------------
(* C3 as written.  The rows emitted for one Replaced record number at most *)
(* maxChunksPerLine + 1, and appending them never takes the total past     *)
(* maxChunks + 1.                                                          *)

-----------------------------------------------------------------------------
(* C4.  Within one render no context row carries a line number that an     *)
(* earlier row of the render (context, removed or replaced) carries.       *)

C4_ContextNeverReEmitted ==
    \A p, q \in 1..Len(result) :
        (p < q /\ IsContextRow(result[q]) /\ HasLineNo(result[p]))
            => LineNo(result[p]) # LineNo(result[q])

\* Two removed lines closer than contextLines with a context row between:
\* the post-context of the first and the pre-context of the second overlap.
C4_Witness ==
    /\ Rendered
    /\ \E p, q, r \in 1..Len(result) :
         /\ p < q /\ q < r
         /\ IsRemovedRow(result[p]) /\ IsContextRow(result[q]) /\ IsRemovedRow(result[r])
         /\ LineNo(result[r]) - LineNo(result[p]) <= contextLines

-----------------------------------------------------------------------------
(* C5.  Rows are output in the order their records are consumed, which is  *)
(* the order of positions in A: every step of the loop consumes the next   *)
(* record (i grows by one), never lowers curLine, only appends to result,  *)
(* and the line numbers carried by the rows never decrease.                *)

IsPrefixOf(s, t) == Len(s) <= Len(t) /\ SubSeq(t, 1, Len(s)) = s

LineNosNeverDecrease(rows) ==
    \A p, q \in 1..Len(rows) :
        (p < q /\ HasLineNo(rows[p]) /\ HasLineNo(rows[q]))
            => LineNo(rows[p]) <= LineNo(rows[q])

C5_RowsInStreamOrder ==
    [][pc = "loop" =>
         /\ IsPrefixOf(result, result')
         /\ LineNosNeverDecrease(result')
         /\ curLine' >= curLine
         /\ i' = i \/ i' = i + 1
         /\ (pc' = "loop" => i' = i + 1)
         /\ changeset' = changeset]_vars

\* A finished render with a removed row, a context row after it and a
\* later row of a higher line.
C5_Witness ==
    /\ Rendered
    /\ \E p, q, r \in 1..Len(result) :
         /\ p < q /\ q < r
         /\ IsRemovedRow(result[p]) /\ IsContextRow(result[q]) /\ HasLineNo(result[r])
         /\ LineNo(result[q]) < LineNo(result[r])

-----------------------------------------------------------------------------
(* C6.  _lineBreak never counts a character of an escape sequence          *)
(* ESC ... 'm' toward the visible-column counter and never places a wrap   *)
(* boundary at one: the iteration on such a character leaves ct, start     *)
(* and the text built so far as they are.                                  *)

\* Character k (1-based) of s belongs to an escape sequence: an ESC at or
\* before it is not closed by an 'm' before it.
InEscape(s, k) ==
    \E j \in 1..k : s[j] = ESC /\ \A t \in (j + 1)..(k - 1) : s[t] # "m"

C6_EscapeNeitherCountedNorSplit ==
    [][(lbPc = "scan" /\ lb'.i = lb.i + 1 /\ InEscape(lbStr, lb.i + 1)) =>
         /\ lb'.ct = lb.ct
         /\ lb'.start = lb.start
         /\ lb'.result = lb.result]_vars

\* A wrapped text with a complete escape sequence that ends at or after
\* the column the text is wrapped at.
C6_Witness ==
    /\ lbPc = "done"
    /\ lb.start > 0
    /\ \E j, k \in 1..Len(lbStr) :
         j < k /\ lbStr[j] = ESC /\ lbStr[k] = "m" /\ k >= lbWidth

-----------------------------------------------------------------------------
(* A text whose only change is a modified line, reported by the diff as    *)
(* the removal of line L (0-based) followed by the added text.             *)

ModifiedAt(L) ==
    /\ L < Len(lines)
    /\ Len(changeset) = Len(lines) + 1
    /\ \A k \in 1..Len(changeset) :
         changeset[k].type = (IF k = L + 1 THEN "-" ELSE IF k = L + 2 THEN "+" ELSE "=")

-----------------------------------------------------------------------------
(* C7.  With contextLines = 3 and line L the only modified line, the       *)
(* output begins with the unstyled rows of lines max(L-3, 0) .. L-1 in     *)
(* order, then the red row of line number L+1; no row precedes them.       *)
(* Stated for renders the global ceiling did not cut.                      *)

C7_BeginsWithPreContext ==
    \A L \in 0..(MaxLines + 1) :
        (Rendered /\ ~Broke /\ contextLines = 3 /\ ModifiedAt(L)) =>
            LET lo == Max(L - 3, 0)
                cnt == L - lo
            IN  /\ Len(result) >= cnt + 1
                /\ \A k \in 1..cnt :
                     IsContextRow(result[k]) /\ LineNo(result[k]) = lo + k
                /\ IsRemovedRow(result[cnt + 1])
                /\ LineNo(result[cnt + 1]) = L + 1

-----------------------------------------------------------------------------
(* C8.  With contextLines = 3 and line L of n the only modified line, the  *)
(* output ends with the green added row followed by exactly                *)
(* min(3, n-1-L) unstyled rows, of lines L+1, L+2, ... in order; no row    *)
(* follows them.  Stated for renders the global ceiling did not cut.       *)

C8_EndsWithPostContext ==
    \A L \in 0..(MaxLines + 1) :
        (Rendered /\ ~Broke /\ contextLines = 3 /\ ModifiedAt(L)) =>
            LET cnt == Min(3, Len(lines) - 1 - L)
                at == Len(result) - cnt
            IN  /\ at >= 1
                /\ IsAddedRow(result[at])
                /\ \A k \in 1..cnt :
                     IsContextRow(result[at + k]) /\ LineNo(result[at + k]) = L + 1 + k

-----------------------------------------------------------------------------
(* C9.  When a Removed, Added or Replaced record is reached with the row   *)
(* count (its context rows included) at maxChunks or more, the render      *)
(* appends exactly one row styled for the record's type, holding '...' in  *)
(* place of the record's text, and stops: no later record is consumed, and *)
(* nothing but a closing gap marker follows the marker row.                *)

StyleOf(type) == IF type = "-" THEN red ELSE IF type = "+" THEN green ELSE cyan

\* A row of the given color whose text, after the position prefix, is '...'.
IsCeilingMarker(row, type) ==
    /\ RowStyle(row) = StyleOf(type)
    /\ Len(row) >= 12
    /\ SubSeq(row, Len(row) - 6, Len(row)) = Ellipsis \o clear
    /\ \A k \in 6..(Len(row) - 7) : row[k] \in Digits \cup {" "}
    /\ HasLineNo(row) <=> type # "+"

C9_CeilingStopsRender ==
    [][/\ (pc = "loop" /\ i < Len(changeset) /\ change.type # "="
              /\ Len(WithContext) >= maxChunks) =>
            LET n == Len(WithContext)
            IN  /\ pc' = "done" /\ i' = i /\ curLine' = curLine
                /\ IsPrefixOf(WithContext, result')
                /\ Len(result') \in {n + 1, n + 2}
                /\ IsCeilingMarker(result'[n + 1], change.type)
                /\ Len(result') = n + 2 => IsGapRow(result'[n + 2])
                /\ Len(result') = n + 2 <=> i < Len(changeset) - 1
       /\ (pc = "done" /\ pc' = "done") => result' = result /\ i' = i]_vars

\* The render stopped at a record with later records left in the stream.
C9_Witness ==
    /\ Broke
    /\ i < Len(changeset) - 1
    /\ \E k \in (i + 2)..Len(changeset) : changeset[k].type # "="
    /\ IsGapRow(result[Len(result)])

-----------------------------------------------------------------------------
(* C10.  When the per-line ceiling cuts a Replaced line at entry k > 1     *)
(* (the rows of entries 1..k pass maxChunksPerLine, and the global ceiling *)
(* did not cut an earlier entry), the rows appended for the line are those *)
(* of entries 1..k-1 and one marker row of that line; the loop goes on     *)
(* with the next record, curLine advanced by one and postContextLine set   *)
(* to the line after, as for a Replaced line that is not cut.              *)

\* Entry k (1-based, k > 1) is the first whose rows pass the per-line ceiling.
PerLineCutAt(k) ==
    /\ k \in 2..Len(EntriesHere.colRes)
    /\ Len(RowsThrough(k)) > maxChunksPerLine
    /\ \A j \in 2..(k - 1) :
         /\ Len(RowsThrough(j)) <= maxChunksPerLine
         /\ Len(WithContext) + Len(RowsThrough(j)) <= maxChunks

C10_PerLineCutKeepsLoopGoing ==
    [][RendersChanged =>
         /\ pc' = "loop" /\ i' = i + 1
         /\ curLine' = curLine + 1
         /\ postContextLine' = curLine + 1
         /\ \A k \in 2..Len(EntriesHere.colRes) :
              PerLineCutAt(k) =>
                /\ Len(result') = Len(WithContext) + Len(RowsThrough(k - 1)) + 1
                /\ IsPrefixOf(WithContext \o RowsThrough(k - 1), result')
                /\ IsLineTruncRow(result'[Len(result')])
                /\ LineNo(result'[Len(result')]) = curLine + 1]_vars

\* A Replaced line was cut by the per-line ceiling alone, and records
\* follow it.
C10_Witness ==
    /\ pc = "loop" /\ i > 0 /\ i < Len(changeset)
    /\ changeset[i].type = "*"
    /\ IsLineTruncRow(result[Len(result)])
    /\ Len(result) < maxChunks

-----------------------------------------------------------------------------
(* C11.  A render is a function of its inputs and of the string-diff       *)
(* configuration alone: it never writes a setting, and the rows it returns *)
(* are those of a render begun from nothing on the same text, stream and   *)
(* width under the same settings, whatever was rendered or configured      *)
(* before it.                                                              *)

\* The loop of a render begun from nothing, from record st.i on.
FreshRows(st, ch, wc, lns, cs, w) ==
    LET no == IF ch.type = "+" THEN <<>> ELSE ToStr(st.curLine + 1)
        cur == IF ch.type = "+" THEN st.curLine ELSE st.curLine + 1
    IN  IF ch.type = "="
        THEN [st EXCEPT !.i = @ + 1, !.curLine = @ + 1]
        ELSE IF Len(wc) >= maxChunks
        THEN [st EXCEPT !.result = Append(wc, PrintLine(Ellipsis, no, w, StyleOf(ch.type)))
                                     \o (IF st.i < Len(cs) - 1 THEN <<Ellipsis>> ELSE <<>>),
                        !.broke = TRUE]
        ELSE [i |-> st.i + 1,
              result |-> IF ch.type = "-"
                         THEN Append(wc, PrintLine(lns[st.curLine + 1], no, w, red))
                         ELSE IF ch.type = "+"
                         THEN Append(wc, PrintLine(StripBreak(ch.right), no, w, green))
                         ELSE ChangedRows(wc, ch, lns, st.curLine, w),
              curLine |-> cur, post |-> cur, broke |-> FALSE]

\* One iteration of the loop over the change stream, from the state st.
FreshStep(st, lns, cs, w) ==
    FreshRows(st, cs[st.i + 1],
              st.result \o PrintContextLines(lns, st.curLine, st.post, w), lns, cs, w)

RECURSIVE FreshLoop(_, _, _, _)
FreshLoop(st, lns, cs, w) ==
    IF st.i >= Len(cs) \/ st.broke THEN st
    ELSE FreshLoop(FreshStep(st, lns, cs, w), lns, cs, w)

\* What follows the loop: nothing after a cut, else the post-context of the
\* last change and the marker of the lines that remain.
FreshEnd(st, lns, w) ==
    IF st.broke THEN st.result
    ELSE st.result
           \o PrintContextLines(lns, Min(st.post + contextLines, Len(lns)), st.post, w)
           \o (IF st.post + contextLines < Len(lns) THEN <<Ellipsis>> ELSE <<>>)

\* The rows of a render of (lns, cs, w) begun from nothing.
FreshRender(lns, cs, w) ==
    FreshEnd(FreshLoop([i |-> 0, result |-> <<>>, curLine |-> 0, post |-> -1,
                        broke |-> FALSE], lns, cs, w), lns, w)

C11_RenderDependsOnInputsOnly ==
    [][/\ pc # "idle" =>
            /\ settings' = settings
            /\ <<lines, changeset, wrapWidth>>' = <<lines, changeset, wrapWidth>>
                 \/ pc' = "idle"
       /\ pc' = "done" => result' = FreshRender(lines, changeset, wrapWidth)]_vars

\* A render under settings changed since start-up has returned rows, a
\* changed line among them.
C11_Witness ==
    /\ Rendered
    /\ maxChunks # 200 /\ contextLines # 3
    /\ \E k \in 1..Len(result) : IsChangedRow(result[k])
    /\ \E k \in 1..Len(result) : IsContextRow(result[k])

-----------------------------------------------------------------------------
(* C12.  After any sequence of configStringDiff calls every setting holds  *)
(* a number: an argument that is not numeric leaves its setting at the     *)
(* value it had, as an undefined argument does.                            *)

IsNumber(v) == v # NaN

C12_SettingsStayNumbers ==
    \A k \in 1..Len(settings) : IsNumber(settings[k])

-----------------------------------------------------------------------------
(* C13.  A Replaced record whose character-level diff does not cover the   *)
(* full line of A is answered by an error raised to the caller: the step   *)
(* at such a record never goes on to the next record and never ends the    *)
(* render with rows returned.                                              *)

\* The columns of the line a character-level diff accounts for.
RECURSIVE CoveredColumns(_)
CoveredColumns(diff) ==
    IF Len(diff) = 0 THEN 0
    ELSE Len(diff[1].value) + Len(diff[1].left) + CoveredColumns(Tail(diff))

\* The loop is at a Replaced record whose diff stops before the line's end.
AtUncovered ==
    AtRecord("*") /\ CoveredColumns(change.diff) < Len(lines[curLine + 1])

C13_UncoveredRaisesError ==
    [][AtUncovered => pc' = "threw"]_vars

-----------------------------------------------------------------------------
(* The physical rows of a text returned by _lineBreak: the stretches       *)
(* between its line breaks.  A character counts toward the width of its    *)
(* row unless it belongs to an escape sequence.                            *)

\* Characters a .. b (1-based) of s are one whole row.
IsRowOf(s, a, b) ==
    /\ a >= 1 /\ b <= Len(s) /\ a <= b + 1
    /\ \A k \in a..b : s[k] # NL
    /\ a = 1 \/ s[a - 1] = NL
    /\ b = Len(s) \/ s[b + 1] = NL

VisibleWidth(s, a, b) == Cardinality({k \in a..b : ~InEscape(s, k)})

\* The widest row of s is at most w wide.
RowsWithin(s, w) ==
    \A a \in 1..(Len(s) + 1) : \A b \in 0..Len(s) :
        IsRowOf(s, a, b) => VisibleWidth(s, a, b) <= w

-----------------------------------------------------------------------------
(* C14 as written.  For every text, indent and width, every physical row   *)
(* of _lineBreak's result is at most width wide, indentation counted and   *)
(* escape sequences not.                                                   *)

C14_RowsWithinWidth ==
    lbPc = "done" => RowsWithin(lbOut, lbWidth)

(* C14 as amended.  The same for every text and every indent smaller than  *)
(* width: with indent >= width the width left for the rows after the first *)
(* is zero or less, no later row is ever cut, and the indentation alone    *)
(* fills the width.                                                        *)

C14_RowsWithinWidthWhenIndentFits ==
    (lbPc = "done" /\ lbIndent < lbWidth) => RowsWithin(lbOut, lbWidth)

\* A text wrapped into three rows or more with an indentation that fits,
\* a row after the first filling the width exactly.
C14_Witness ==
    /\ lbPc = "done"
    /\ lbIndent > 0 /\ lbIndent < lbWidth
    /\ \E a, b \in 2..Len(lbOut) :
         /\ IsRowOf(lbOut, a, b)
         /\ b < Len(lbOut)
         /\ VisibleWidth(lbOut, a, b) = lbWidth

-----------------------------------------------------------------------------
(* A row returned by _printLine, read back: the style codes around it      *)
(* taken off, it is the prefix, the blanks that pad it, and the body.      *)

\* plOut without the style it starts with and the clear it ends with.
PLPlain ==
    IF plStyle # <<>> THEN SubSeq(plOut, Len(plStyle) + 1, Len(plOut) - Len(clear)) ELSE plOut

\* The length of the prefix with the blanks that follow it.
PLPadded ==
    Len(plPrefix)
    + Cardinality({k \in 1..Len(PLPlain) :
                     k > Len(plPrefix) /\ \A j \in (Len(plPrefix) + 1)..k : PLPlain[j] = " "})

PLBody == SubSeq(PLPlain, PLPadded + 1, Len(PLPlain))

\* The row is styled as asked, begins with the prefix padded to four
\* characters or more, and its body is the line, or the line cut and
\* followed by '...' when it is longer than the width left.
PLShape ==
    /\ plStyle # <<>> =>
         /\ IsPrefixOf(plStyle, plOut)
         /\ SubSeq(plOut, Len(plOut) - Len(clear) + 1, Len(plOut)) = clear
    /\ IsPrefixOf(plPrefix, PLPlain)
    /\ PLPadded >= 4
    /\ IF Len(plLine) > plWidth - PLPadded
       THEN /\ Len(PLBody) >= 3
            /\ SubSeq(PLBody, Len(PLBody) - 2, Len(PLBody)) = Ellipsis
            /\ IsPrefixOf(SubSeq(PLBody, 1, Len(PLBody) - 3), plLine)
       ELSE PLBody = plLine

-----------------------------------------------------------------------------
(* C15 as written.  For every body, prefix and width, _printLine pads the  *)
(* prefix to at least 4 characters and cuts a body longer than the width   *)
(* left, appending '...', so that prefix and body take at most width       *)
(* characters; a body that fits is unchanged.                              *)

C15_PrintLineFitsWidth ==
    plPc = "done" =>
        /\ PLShape
        /\ Len(plLine) > plWidth - PLPadded => Len(PLPlain) <= plWidth

(* C15 as amended.  The same, the bound on the row's length for every      *)
(* width that leaves at least 3 characters after the padded prefix: with   *)
(* less room the cut body is '...' alone and passes the width.             *)

C15_PrintLineFitsWidthWithRoom ==
    plPc = "done" =>
        /\ PLShape
        /\ (Len(plLine) > plWidth - PLPadded /\ plWidth - PLPadded >= 3)
             => Len(PLPlain) = plWidth

\* A styled row whose line was cut, with part of it kept.
C15_Witness ==
    /\ plPc = "done"
    /\ plStyle # <<>>
    /\ Len(plPrefix) > 0
    /\ Len(plLine) > plWidth - PLPadded
    /\ plWidth - PLPadded > 3

-----------------------------------------------------------------------------
(* printdiff and _generateObjectDiff                                       *)

\* process.stdout.columns of a usual terminal.
consoleColumns == 80

\* rows.join('\n')
RECURSIVE Join(_)
Join(rows) ==
    IF Len(rows) = 0 THEN <<>>
    ELSE IF Len(rows) = 1 THEN rows[1]
    ELSE rows[1] \o <<NL>> \o Join(Tail(rows))

\* util.format of the four format strings, plain (idx 0) or styled (idx 1).
changeStr(idx, path, removed, added) ==
    IF idx = 1
    THEN cyan \o <<"*", " ", " ", " ">> \o path \o clear \o <<" ", "=", " ">>
         \o red \o removed \o clear \o <<" ", "-", ">", " ">> \o green \o added \o clear
    ELSE <<"*", " ", " ", " ">> \o path \o <<" ", "=", " ">>
         \o removed \o <<" ", "-", ">", " ">> \o added

changeStr2(idx, removed, added) ==
    IF idx = 1
    THEN cyan \o <<"*">> \o clear \o <<" ", " ", " ">>
         \o red \o removed \o clear \o <<" ", "-", ">", " ">> \o green \o added \o clear
    ELSE <<"*", " ", " ", " ">> \o removed \o <<" ", "-", ">", " ">> \o added

removeStr(idx, path, value) ==
    IF idx = 1
    THEN red \o <<"-", " ", " ", " ">> \o path \o clear \o <<" ", "=", " ">>
         \o red \o value \o clear
    ELSE <<"-", " ", " ", " ">> \o path \o <<" ", "=", " ">> \o value

addStr(idx, path, value) ==
    IF idx = 1
    THEN green \o <<"+", " ", " ", " ">> \o path \o clear \o <<" ", "=", " ">>
         \o green \o value \o clear
    ELSE <<"+", " ", " ", " ">> \o path \o <<" ", "=", " ">> \o value

\* numberPat.test(key): /^\d+$/
numberPat(key) == Len(key) > 0 /\ \A k \in 1..Len(key) : IsDecimalDigit(key[k])

\* newPath for a key under path; `path ?` is false for the empty string.
NewPath(path, key) ==
    IF numberPat(key)
    THEN (IF path # <<>> THEN path ELSE <<>>) \o <<"[">> \o key \o <<"]">>
    ELSE IF path # <<>> THEN path \o <<".">> \o key ELSE key

\* The row traverse pushes for a node that is not an 'object change'.
LeafRows(node, path, idx, w) ==
    IF node.changed = "primitive change"
    THEN <<LineBreak(changeStr(idx, path, node.removed, node.added), 4, w)>>
    ELSE IF node.changed = "removed"
    THEN <<LineBreak(removeStr(idx, path, node.value), 4, w)>>
    ELSE IF node.changed = "added"
    THEN <<LineBreak(addStr(idx, path, node.value), 4, w)>>
    ELSE <<>>

\* The rows pushed by the calls traverse(node, path) that are pending, in
\* order: `work` is the sequence of their arguments.  An 'object change'
\* node is replaced by its kids, in the order of its keys, each with its
\* newPath; the calls return in depth-first order.
RECURSIVE traverse(_, _, _)
traverse(work, idx, w) ==
    IF Len(work) = 0 THEN <<>>
    ELSE LET node == work[1].node
             path == work[1].path
         IN  IF node.changed = "object change"
             THEN traverse([k \in 1..Len(node.keys) |->
                               [node |-> node.kids[k], path |-> NewPath(path, node.keys[k])]]
                           \o Tail(work), idx, w)
             ELSE LeafRows(node, path, idx, w) \o traverse(Tail(work), idx, w)

\* _generateObjectDiff(a, b, options), options being an object with a
\* number as wrapWidth.
GenerateObjectDiff(ops, opts) ==
    LET idx == IF opts.colors = "true" THEN 1 ELSE 0
        w == opts.wrapWidth.n
    IN  IF ops.kind = "objects" THEN traverse(<<[node |-> ops.diff, path |-> <<>>]>>, idx, w)
        ELSE IF ops.kind = "strings" THEN FreshRender(ops.lns, ops.cs, w)
        ELSE IF ops.a # ops.b THEN <<LineBreak(changeStr2(idx, ops.a, ops.b), 4, w)>>
        ELSE <<>>

\* The options object _generateObjectDiff is given: the caller's, or a new
\* one, with colors and output overwritten and wrapWidth filled in.
OptionsUsed(opts) ==
    [isObject |-> TRUE,
     colors |-> "true",
     output |-> "null",
     wrapWidth |-> IF opts.isObject /\ opts.wrapWidth.t # "undefined"
                   THEN opts.wrapWidth ELSE Num(consoleColumns)]

\* Keys of an object, and the leaves of a diff tree.
PDKeys == {<<"0">>, <<"a">>, <<>>}

\* What Object.keys may return: one or two different keys, those made of
\* digits first.
PDKeySeqs ==
    {<<k>> : k \in PDKeys}
    \cup {q \in PDKeys \X PDKeys : q[1] # q[2] /\ (numberPat(q[2]) => numberPat(q[1]))}

PDLeaves ==
    {Node("primitive change", <<>>, <<>>, <<"1">>, <<"2">>, <<>>),
     Node("removed", <<>>, <<>>, <<>>, <<>>, <<"1">>),
     Node("added", <<>>, <<>>, <<>>, <<>>, <<"2">>),
     EqualLeaf}

\* Trees two levels deep: the kids of the root are leaves or objects with
\* one key and a changed leaf under it.
PDInner ==
    PDLeaves
    \cup {Node("object change", <<k>>,
                <<Node("primitive change", <<>>, <<>>, <<"1">>, <<"2">>, <<>>)>>,
                <<>>, <<>>, <<>>) : k \in PDKeys}

PDTrees ==
    {Node("object change", ks, <<n>>, <<>>, <<>>, <<>>) :
        ks \in {q \in PDKeySeqs : Len(q) = 1}, n \in PDInner}
    \cup {Node("object change", ks, <<n1, n2>>, <<>>, <<>>, <<>>) :
            ks \in {q \in PDKeySeqs : Len(q) = 2}, n1 \in PDInner, n2 \in PDInner}

\* util.inspect of values that are neither objects nor both strings.
PDLiterals == {<<"1">>, <<"2">>, <<"t", "r", "u", "e">>}

PDOperands ==
    {[kind |-> "objects", diff |-> t, a |-> <<>>, b |-> <<>>, lns |-> <<>>, cs |-> <<>>] :
        t \in PDTrees}
    \cup {[kind |-> "literals", diff |-> EqualLeaf, a |-> x, b |-> y, lns |-> <<>>, cs |-> <<>>] :
            x \in PDLiterals, y \in PDLiterals}
    \cup UNION {{[kind |-> "strings", diff |-> EqualLeaf, a |-> <<>>, b |-> <<>>,
                  lns |-> l, cs |-> c] : c \in StreamsOf(l)} : l \in TextsOf(1)}

PDOptions ==
    {NoOptions}
    \cup {[isObject |-> TRUE, colors |-> c, output |-> o, wrapWidth |-> w] :
            c \in {"undefined", "true", "false"},
            o \in {"undefined", "stream"},
            w \in {Undefined, Num(12)}}

InitPD ==
    /\ maxChunks = 200
    /\ maxChunksPerLine = 20
    /\ contextLines = 3
    /\ contextColumns = 25
    /\ maxColumns = 50
    /\ pc = "idle"
    /\ lines = <<>>
    /\ changeset = <<>>
    /\ wrapWidth = 0
    /\ i = 0
    /\ result = <<>>
    /\ curLine = 0
    /\ postContextLine = -1
    /\ lbPc = "off"
    /\ lbStr = <<>>
    /\ lbIndent = 0
    /\ lbWidth = 0
    /\ lb = LBInit(0)
    /\ lbOut = <<>>
    /\ plPc = "off"
    /\ plLine = <<>>
    /\ plPrefix = <<>>
    /\ plWidth = 0
    /\ plStyle = <<>>
    /\ plOut = <<>>
    /\ pdPc = "call"
    /\ operands \in PDOperands
    /\ options \in PDOptions
    /\ pdResult = <<>>
    /\ printed = <<>>
    /\ CCOff

\* printdiff(a, b, options): the caller's options object is written to when
\* it is an object; options.output is null by then, so that the rows go to
\* console.log, which ends the text with a line break.
Printdiff ==
    /\ pdPc = "call"
    /\ options' = IF options.isObject THEN OptionsUsed(options) ELSE options
    /\ pdResult' = GenerateObjectDiff(operands, OptionsUsed(options))
    /\ printed' = Join(pdResult') \o <<NL>>
    /\ pdPc' = "done"
    /\ UNCHANGED <<settings, pc, locals, lbvars, plvars, operands, ccvars>>

NextPD == Printdiff

SpecPD == InitPD /\ [][NextPD]_vars

-----------------------------------------------------------------------------
(* C16.  The colors option selects the formatting: a call whose options    *)
(* object has colors = false prints no styling escape sequence, and a call *)
(* with colors = true prints styled rows (every row of a structural or     *)
(* literal diff starts with a color; a text diff with a change holds one). *)

HasEscape(text) == \E k \in 1..Len(text) : text[k] = ESC

C16_ColorsSelectsFormatting ==
    [][(pdPc = "call" /\ pdPc' = "done" /\ options.isObject) =>
         /\ options.colors = "false" => ~HasEscape(printed')
         /\ (options.colors = "true" /\ operands.kind # "strings") =>
                \A k \in 1..Len(pdResult') : pdResult'[k][1] = ESC
         /\ (options.colors = "true" /\ operands.kind = "strings"
               /\ ~AllEqual(operands.cs)) => HasEscape(printed')]_vars

-----------------------------------------------------------------------------
(* C17.  A call of printdiff leaves its inputs as they were: the operands  *)
(* and every field of the caller's options value.                          *)

C17_InputsUnchanged ==
    [][pdPc = "call" => (operands' = operands /\ options' = options)]_vars

-----------------------------------------------------------------------------
(* C18.  The walker emits one row for each leaf marked changed, removed or *)
(* added, in depth-first key order, and the path of a leaf is built from   *)
(* the keys on the way to it: '[k]' appended for a key made of digits,     *)
(* '.k' for any other key, 'k' without the dot at the top level.           *)

\* The path of a key under `path`, by the level it is at.
PathByLevel(path, key, top) ==
    IF numberPat(key) THEN path \o <<"[">> \o key \o <<"]">>
    ELSE IF top THEN key
    ELSE path \o <<".">> \o key

\* The marked leaves under the nodes of `work`, depth first in key order,
\* each with its path; an entry of work is a node, the path to it and
\* whether its keys are at the top level.
RECURSIVE MarkedLeaves(_)
MarkedLeaves(work) ==
    IF Len(work) = 0 THEN <<>>
    ELSE LET node == work[1].node
             path == work[1].path
         IN  IF node.changed = "object change"
             THEN MarkedLeaves([k \in 1..Len(node.keys) |->
                                   [node |-> node.kids[k],
                                    path |-> PathByLevel(path, node.keys[k], work[1].top),
                                    top |-> FALSE]]
                               \o Tail(work))
             ELSE IF node.changed \in {"primitive change", "removed", "added"}
             THEN <<[path |-> path, leaf |-> node]>> \o MarkedLeaves(Tail(work))
             ELSE MarkedLeaves(Tail(work))

\* The styled row of a marked leaf at a path, before it is wrapped.
LeafRow(path, leaf) ==
    IF leaf.changed = "primitive change" THEN changeStr(1, path, leaf.removed, leaf.added)
    ELSE IF leaf.changed = "removed" THEN removeStr(1, path, leaf.value)
    ELSE addStr(1, path, leaf.value)

C18_OneRowPerLeafAtItsPath ==
    (pdPc = "done" /\ operands.kind = "objects") =>
        LET leaves == MarkedLeaves(<<[node |-> operands.diff, path |-> <<>>, top |-> TRUE]>>)
        IN  /\ Len(pdResult) = Len(leaves)
            /\ \A k \in 1..Len(leaves) :
                 pdResult[k] = LineBreak(LeafRow(leaves[k].path, leaves[k].leaf), 4,
                                         options.wrapWidth.n)

-----------------------------------------------------------------------------
(* The rows a step at a Removed, Added or Replaced record pushes before    *)
(* the record's own row, read back from result: they come before the first *)
(* styled row the step appends.                                            *)

\* The rows the step appends.
NewRows == SubSeq(result', Len(result) + 1, Len(result'))

\* The position in NewRows of the first styled row.
FirstStyled ==
    CHOOSE k \in 1..(Len(NewRows) + 1) :
        /\ k <= Len(NewRows) => RowStyle(NewRows[k]) # <<>>
        /\ \A j \in 1..(k - 1) : RowStyle(NewRows[j]) = <<>>

\* Rows of result that carry a line number.
NumberedRows(rows) == {k \in 1..Len(rows) : HasLineNo(rows[k])}

\* The last row of result with a line number (if any), the context rows
\* and markers of the step, and the record's own row.
AroundContext ==
    (IF NumberedRows(result) # {}
     THEN <<result[CHOOSE k \in NumberedRows(result) : \A j \in NumberedRows(result) : j <= k]>>
     ELSE <<>>)
    \o SubSeq(NewRows, 1, Min(FirstStyled, Len(NewRows)))

-----------------------------------------------------------------------------
(* C19.  _printContextLines emits one gap marker, and only one, exactly    *)
(* where lines of A are left out before the pre-context rows of a change:  *)
(* at the top when the first row printed is not line 1, and between two    *)
(* rows whose line numbers differ by two or more.  No marker stands        *)
(* between rows of consecutive line numbers, and no lines are left out     *)
(* without a marker.                                                       *)

-----------------------------------------------------------------------------
(* C20.  When the stream is exhausted after a change, with `pending` the   *)
(* first line after that change, the render appends the unstyled rows of   *)
(* lines pending .. min(pending + contextLines, n) - 1 of the n-line text  *)
(* in order, then one gap marker if and only if that window stops short of *)
(* the last line, and nothing else; it then returns.                       *)

-----------------------------------------------------------------------------
(* C23.  The fast path of _lineBreak is only an optimization: for every    *)
(* text whose raw length is at most width, the text returned unchanged is  *)
(* what the scanning loop and the code after it give for that text.        *)

\* What the code below the fast path returns.
FullScan(str, indent, w) == LBFinish(str, indent, LBLoop(str, indent, LBInit(w)))

C23_FastPathIsTheScan ==
    (lbPc = "done" /\ Len(lbStr) <= lbWidth) =>
        lbOut = FullScan(lbStr, lbIndent, lbWidth)

-----------------------------------------------------------------------------
(* C24.  For every text, with or without escape sequences, the text left   *)
(* after the last break is appended by _lineBreak exactly once, and when   *)
(* the last break falls on the last visible character no trailing row      *)
(* without visible characters is produced.                                 *)

\* The loop of _lineBreak has run to the end of the text and the function
\* has returned.
LBScanned == lbPc = "done" /\ Len(lbStr) > lbWidth

\* The text left after the last break.
LBRest == SubstringFrom(lbStr, lb.start)

\* The last break fell on the last visible character: a break was made and
\* no character has been counted since.
LastBreakOnLastVisible == lb.start > 0 /\ lb.ct = 0

C24_RestOnceNoEmptyTrailingRow ==
    LBScanned =>
        /\ lbOut = lb.result
                     \o (IF LBRest = <<>> THEN <<>>
                         ELSE (IF lb.start > 0 THEN <<NL>> \o Spaces(lbIndent) ELSE <<>>)
                                \o LBRest)
        /\ LastBreakOnLastVisible => lbOut = lb.result

-----------------------------------------------------------------------------
(* C25.  _lineBreak neither drops, duplicates nor reorders content: for    *)
(* every text, indent and width, the result without the line break and the *)
(* indentation that stand at each break is the text without its line       *)
(* breaks, escape sequences included and where they were.                  *)

\* s without its line breaks and without the blanks, `indent` at most,
\* that follow each of them; `skip` is the number of blanks that may still
\* be left out.
RECURSIVE Unwrap(_, _, _)
Unwrap(s, indent, skip) ==
    IF Len(s) = 0 THEN <<>>
    ELSE IF Head(s) = NL THEN Unwrap(Tail(s), indent, indent)
    ELSE IF skip > 0 /\ Head(s) = " " THEN Unwrap(Tail(s), indent, skip - 1)
    ELSE <<Head(s)>> \o Unwrap(Tail(s), indent, 0)

C25_ContentKept ==
    lbPc = "done" => Unwrap(lbOut, lbIndent, 0) = Unwrap(lbStr, 0, 0)

\* A text with a line break and an escape sequence has been scanned, cut
\* at the width as well, and returned with indented rows.
C25_Witness ==
    /\ LBScanned
    /\ lbIndent > 0
    /\ \E j, k, n \in 1..Len(lbStr) :
         j < k /\ lbStr[j] = ESC /\ lbStr[k] = "m" /\ lbStr[n] = NL
    /\ Cardinality({k \in 1..Len(lbOut) : lbOut[k] = NL})
         > Cardinality({k \in 1..Len(lbStr) : lbStr[k] = NL})

-----------------------------------------------------------------------------
(* The character-level part of one Changed record on its own, one          *)
(* CharChange a step: the loop over change.diff and the post-context       *)
(* columns after it.                                                       *)

\* The line of the record.
CCLines == {[k \in 1..MaxLineLen |-> Letters[((k - 1) % Len(Letters)) + 1]]}

\* The spans charDiff reports at column k (0-based) of line: one or three
\* characters removed, three added, one replaced by three, three by one.
CCSpansAt(line, k) ==
    {CIns(<<"x", "y", "z">>)}
    \cup (IF k + 1 <= Len(line)
          THEN {CDel(SubSeq(line, k + 1, k + 1)),
                CRep(SubSeq(line, k + 1, k + 1), <<"x", "y", "z">>)}
          ELSE {})
    \cup (IF k + 3 <= Len(line)
          THEN {CDel(SubSeq(line, k + 1, k + 3)), CRep(SubSeq(line, k + 1, k + 3), <<"x">>)}
          ELSE {})

\* The diffs that cover columns k .. Len(line) - 1 of line with at most
\* `budget` spans: unchanged text, then a span, and so on.
RECURSIVE CCDiffsFrom(_, _, _)
CCDiffsFrom(line, k, budget) ==
    (IF k >= Len(line) THEN {<<>>} ELSE {<<CEq(SubSeq(line, k + 1, Len(line)))>>})
    \cup (IF budget > 0
          THEN UNION {
                 UNION {
                   {(IF e > 0 THEN <<CEq(SubSeq(line, k + 1, k + e))>> ELSE <<>>) \o <<c>> \o d :
                       d \in CCDiffsFrom(line, k + e + Len(c.left), budget - 1)} :
                   c \in CCSpansAt(line, k + e)} :
                 e \in 0..(Len(line) - k)}
          ELSE {})

\* The diffs of a Changed record: each holds a span, the code reads
\* colRes[colRes.length-1] after the loop.
CCDiffsOf(line) ==
    {d \in CCDiffsFrom(line, 0, MaxCharChanges) : \E k \in 1..Len(d) : d[k].type # "="}

\* Settings of the character-level part: narrow context windows, a short
\* span limit, a ceiling of one entry.
ConfigArgsCC ==
    {<<Undefined, mcpl, mcol, Undefined, cc>> :
        mcpl \in {Undefined, Num(1)}, mcol \in {Undefined, Num(2)},
        cc \in {Undefined, Num(0), Num(1), Num(2)}}

InitCC ==
    /\ maxChunks = 200
    /\ maxChunksPerLine = 20
    /\ contextLines = 3
    /\ contextColumns = 25
    /\ maxColumns = 50
    /\ pc = "idle"
    /\ lines = <<>>
    /\ changeset = <<>>
    /\ wrapWidth = 0
    /\ i = 0
    /\ result = <<>>
    /\ curLine = 0
    /\ postContextLine = -1
    /\ lbPc = "off"
    /\ lbStr = <<>>
    /\ lbIndent = 0
    /\ lbWidth = 0
    /\ lb = LBInit(0)
    /\ lbOut = <<>>
    /\ plPc = "off"
    /\ plLine = <<>>
    /\ plPrefix = <<>>
    /\ plWidth = 0
    /\ plStyle = <<>>
    /\ plOut = <<>>
    /\ PDOff
    /\ ccPc = "call"
    /\ ccLine \in CCLines
    /\ ccDiff \in CCDiffsOf(ccLine)
    /\ ccJ = 0
    /\ ccColRes = <<>>
    /\ ccCurColumn = 0

\* configStringDiff, before the record is processed.
CCConfig ==
    /\ ccPc = "call"
    /\ ConfigStringDiff(ConfigArgsCC)

\* colRes = []; curColumn = 0; and the loop is entered.
CCEnter ==
    /\ ccPc = "call"
    /\ ccColRes' = <<>>
    /\ ccCurColumn' = 0
    /\ ccJ' = 0
    /\ ccPc' = "loop"
    /\ UNCHANGED <<settings, pc, locals, lbvars, plvars, pdvars, ccLine, ccDiff>>

\* One iteration of the loop over change.diff; the loop is left once
\* colRes holds more than maxChunksPerLine entries.
CCStep ==
    /\ ccPc = "loop"
    /\ ccJ < Len(ccDiff)
    /\ LET st1 == CharStep([colRes |-> ccColRes, curColumn |-> ccCurColumn],
                           ccLine, ccDiff[ccJ + 1])
       IN  /\ ccColRes' = st1.colRes
           /\ ccCurColumn' = st1.curColumn
           /\ IF Len(st1.colRes) > maxChunksPerLine
              THEN ccPc' = "after" /\ ccJ' = ccJ
              ELSE ccPc' = "loop" /\ ccJ' = ccJ + 1
    /\ UNCHANGED <<settings, pc, locals, lbvars, plvars, pdvars, ccLine, ccDiff>>

\* The loop ends with the last CharChange.
CCExit ==
    /\ ccPc = "loop"
    /\ ~(ccJ < Len(ccDiff))
    /\ ccPc' = "after"
    /\ UNCHANGED <<settings, pc, locals, lbvars, plvars, pdvars,
                   ccLine, ccDiff, ccJ, ccColRes, ccCurColumn>>

\* colRes after the code that follows the loop: the post-context columns
\* of the last span, and '...' when the line goes on after them.
AfterCharLoop(cr, ln) ==
    LET last == Len(cr)
        cr1 == PrintContextColumns(cr, ln, Min(cr[last].endColumn + contextColumns, Len(ln)))
    IN  IF cr1[last].endColumn < Len(ln)
        THEN [cr1 EXCEPT ![last].value = @ \o Ellipsis]
        ELSE cr1

CCPostContext ==
    /\ ccPc = "after"
    /\ ccColRes' = AfterCharLoop(ccColRes, ccLine)
    /\ ccPc' = "done"
    /\ UNCHANGED <<settings, pc, locals, lbvars, plvars, pdvars,
                   ccLine, ccDiff, ccJ, ccCurColumn>>

NextCC == CCConfig \/ CCEnter \/ CCStep \/ CCExit \/ CCPostContext

SpecCC == InitCC /\ [][NextCC]_vars

-----------------------------------------------------------------------------
(* C21.  In _printContextColumns, a new span whose start column is at most *)
(* 2 x contextColumns past the current entry's end column is appended,     *)
(* with the text in between, to that same entry; a span farther away       *)
(* closes the entry with exactly contextColumns characters of trailing     *)
(* context and an ellipsis, and opens a new entry that starts              *)
(* contextColumns before the span, with a leading ellipsis.                *)

\* The next iteration is on a span, and colRes holds an entry.
SpanAfterEntry ==
    /\ ccPc = "loop"
    /\ ccJ < Len(ccDiff)
    /\ ccDiff[ccJ + 1].type # "="
    /\ Len(ccColRes) > 0

\* text is `before` followed by a highlighted span.
SpanFollows(before, text) ==
    /\ IsPrefixOf(before, text)
    /\ Len(text) > Len(before)
    /\ text[Len(before) + 1] = ESC

C21_NearSpanJoinsFarSpanOpens ==
    [][SpanAfterEntry =>
         LET n == Len(ccColRes)
             lastEntry == ccColRes[n]
             from == lastEntry.endColumn
         IN  /\ \A k \in 1..(n - 1) : ccColRes'[k] = ccColRes[k]
             /\ IF ccCurColumn - from <= 2 * contextColumns
                THEN /\ Len(ccColRes') = n
                     /\ ccColRes'[n].startColumn = lastEntry.startColumn
                     /\ SpanFollows(lastEntry.value \o SubSeq(ccLine, from + 1, ccCurColumn),
                                    ccColRes'[n].value)
                ELSE /\ Len(ccColRes') = n + 1
                     /\ ccColRes'[n] =
                          [value |-> lastEntry.value
                                       \o SubSeq(ccLine, from + 1, from + contextColumns)
                                       \o Ellipsis,
                           startColumn |-> lastEntry.startColumn,
                           endColumn |-> from + contextColumns]
                     /\ ccColRes'[n + 1].startColumn = ccCurColumn - contextColumns
                     /\ SpanFollows(Ellipsis \o SubSeq(ccLine, ccCurColumn - contextColumns + 1,
                                                       ccCurColumn),
                                    ccColRes'[n + 1].value)]_vars

\* A span has opened a second entry, the first closed with a context
\* window that is not empty, and the loop goes on.
C21_Witness ==
    /\ ccPc = "loop"
    /\ contextColumns > 0
    /\ Len(ccColRes) = 2
    /\ ccColRes[2].startColumn = ccColRes[1].endColumn + 1

-----------------------------------------------------------------------------
(* C22.  For every Removed, Added or Replaced CharChange, the highlighted  *)
(* text appended to the entry is the span's first maxColumns characters    *)
(* followed by an ellipsis when the span is longer than maxColumns, and    *)
(* the whole span otherwise; the cut does not alter the column             *)
(* bookkeeping: the entry's endColumn and curColumn advance by the full    *)
(* removed length.                                                         *)

\* The next iteration is on a span.
AtSpan == ccPc = "loop" /\ ccJ < Len(ccDiff) /\ ccDiff[ccJ + 1].type # "="

\* The text of a span as the claim has it shown.
Shown(text) ==
    IF Len(text) > maxColumns THEN SubSeq(text, 1, maxColumns) \o Ellipsis ELSE text

\* The highlighted text of a CharChange.
Highlighted(chg) ==
    (IF chg.type \in {"-", "*"} THEN red \o Shown(chg.left) \o clear ELSE <<>>)
    \o (IF chg.type \in {"+", "*"} THEN green \o Shown(chg.right) \o clear ELSE <<>>)

IsSuffixOf(s, t) == Len(s) <= Len(t) /\ SubSeq(t, Len(t) - Len(s) + 1, Len(t)) = s

C22_SpanCutKeepsColumns ==
    [][AtSpan =>
         LET chg == ccDiff[ccJ + 1]
             lastEntry == ccColRes'[Len(ccColRes')]
         IN  /\ IsSuffixOf(Highlighted(chg), lastEntry.value)
             /\ lastEntry.endColumn = ccCurColumn + Len(chg.left)
             /\ ccCurColumn' = ccCurColumn + Len(chg.left)]_vars

\* The loop has gone past a removed span longer than maxColumns and a
\* replaced one whose new text is longer than maxColumns.
C22_Witness ==
    /\ ccPc = "loop"
    /\ ccJ = Len(ccDiff)
    /\ \E k \in 1..Len(ccDiff) : ccDiff[k].type = "-" /\ Len(ccDiff[k].left) > maxColumns
    /\ \E k \in 1..Len(ccDiff) : ccDiff[k].type = "*" /\ Len(ccDiff[k].right) > maxColumns

-----------------------------------------------------------------------------
(* C26.  While one Changed line is processed, after every CharChange: each *)
(* entry of colRes has startColumn <= endColumn <= length of the line, an  *)
(* entry's endColumn and text never shrink, and consecutive entries cover  *)
(* disjoint increasing column ranges: the previous entry's endColumn is    *)
(* less than the next entry's startColumn.                                 *)

\* The entries are within the line, each after the one before it.
EntriesInOrder ==
    /\ \A k \in 1..Len(ccColRes) :
         /\ 0 <= ccColRes[k].startColumn
         /\ ccColRes[k].startColumn <= ccColRes[k].endColumn
         /\ ccColRes[k].endColumn <= Len(ccLine)
    /\ \A k \in 1..(Len(ccColRes) - 1) :
         ccColRes[k].endColumn < ccColRes[k + 1].startColumn

\* No entry is taken away, moved back or cut.
EntriesOnlyGrow ==
    /\ Len(ccColRes') >= Len(ccColRes)
    /\ \A k \in 1..Len(ccColRes) :
         /\ ccColRes'[k].startColumn = ccColRes[k].startColumn
         /\ ccColRes'[k].endColumn >= ccColRes[k].endColumn
         /\ IsPrefixOf(ccColRes[k].value, ccColRes'[k].value)

C26_EntriesOrderedAndGrowing ==
    [][/\ ccPc' \in {"loop", "after", "done"} => EntriesInOrder'
       /\ ccPc \in {"loop", "after"} => EntriesOnlyGrow]_vars

\* Two entries stand in colRes after the last CharChange, the first one
\* closed right before the context window of the second.
C26_Witness ==
    /\ ccPc = "done"
    /\ Len(ccColRes) = 2
    /\ ccColRes[1].startColumn < ccColRes[1].endColumn
    /\ ccColRes[1].endColumn + 1 = ccColRes[2].startColumn
    /\ ccColRes[2].endColumn = Len(ccLine)

====
